---- MODULE Spec2Model ----
(***************************************************************************)
(* Model of the outbound buffer (aorta.buf) and the publisher settlement   *)
(* handlers (aorta.publisher.base) of python-aorta.                        *)
(*                                                                         *)
(* Storage follows SpooledBuffer: queue entries are files named by the     *)
(* message id and listed by mtime, delivery records are files named by the *)
(* delivery tag, failed records are files named by the message id under    *)
(* rejected/ and undeliverable/.  Points in time (datetime values and      *)
(* ms-since-epoch integers alike) are integers counting milliseconds.      *)
(***************************************************************************)
EXTENDS Integers, Sequences, FiniteSets, TLC

\* ---------------------------------------------------------------- bounds
MaxIds == 2
MaxTags == 1
MaxTime == 1
MaxCredit == 1
MaxDelay == 1
MaxDelayArg == 60
MaxRetries == 10
MaxDests == 3
MaxInbound == 2
MaxSignals == 2
MaxEvents == 1
MaxLimit == 2
MaxKills == 1
MaxCriterions == 2

Ids == 1..MaxIds
Tags == 1..MaxTags
Delays == 0..MaxDelay

\* ---------------------------------------------------------------- values
\* Python's None, for a message and for a tag.
None == [id |-> 0, delivery_count |-> 0]
NoTag == 0

Msg(i, n) == [id |-> i, delivery_count |-> n]

\* A message as a producer hands it to publish, with the envelope fields
\* publish looks at.  id and correlation_id: 0 is None, NotUuid a value that
\* is not a uuid.UUID (a str, an int), a positive number a UUID.
\* creation_time: thousandths of the unit, 0 is unset.
NotUuid == -1
Envelope(i, c, t, d, n) ==
    [id |-> i, correlation_id |-> c, creation_time |-> t, durable |-> d,
     delivery_count |-> n]
NoEnvelope == Envelope(0, 0, 0, FALSE, 0)

\* An AMQP link of the router daemon: is_sender says that our end is a
\* proton.Sender, peer who is at the other end, local that we initiated it.
Link(s, p, l) == [is_sender |-> s, peer |-> p, local |-> l]
NoLink == Link(FALSE, "", FALSE)

\* A key of a document that may be missing: <<>> when it is, <<v>> when it
\* is there with value v.
Missing == <<>>
Given(v) == <<v>>

\* A criterion document and a rule document, as loaded from a rule file, and
\* what a schema's load returns: the kind of object, the errors by key, and
\* for a Rule the values of exclude and return_to_sender.
CriterionDoc(n, o, v) == [name |-> n, operator |-> o, value |-> v]
RuleDoc(d, c, e, r) ==
    [destinations |-> d, criterions |-> c, exclude |-> e,
     return_to_sender |-> r]
Loaded(o, e, x, r) ==
    [object |-> o, errors |-> e, exclude |-> x, return_to_sender |-> r]
NoCriterionDoc == CriterionDoc(Missing, Missing, Missing)
NoRuleDoc == RuleDoc(Missing, Missing, Missing, Missing)
NotLoaded == Loaded("", {}, <<>>, FALSE)

\* A daemon before main() built its handler: no signal handler installed,
\* beat thread not started, nothing triggered on the event injector, no
\* container, no sender link.
NoDaemon ==
    [kind |-> "none", must_stop |-> FALSE, thread |-> "new",
     injector |-> "open", events |-> <<>>, handler |-> "idle",
     container |-> "new", server |-> "none", sender |-> "none",
     connection |-> "none", lost |-> {}, signals |-> 0, teardowns |-> 0,
     stale |-> FALSE, beat_closed |-> FALSE]

\* A file of the spool: its directory ("." is the spool itself), the
\* extension of its name, what of its content has reached the file, and
\* whether that was fsynced.  One message id and one delivery tag are
\* followed, so that the directory and the extension name the file.
File(d, e, c, y) == [dir |-> d, ext |-> e, content |-> c, synced |-> y]

\* No write is going on.
NoWrite == [dir |-> "", pc |-> "idle"]

\* An empty spool directory and a buffer that is not writing.
NoFiles == [disk |-> {}, write |-> NoWrite, kills |-> 0]

VARIABLES
    clock,          \* wall clock, ms
    queue,          \* <spool>/*.amqp in mtime order: Seq of [msg, nbf]
    deliveries,     \* <spool>/deliveries/<tag>.dstate: Tags -> message or None
    rejected,       \* <spool>/rejected/<id>.amqp: Ids -> message or None
    undeliverable,  \* <spool>/undeliverable/<id>.amqp: Ids -> message or None
    credit,         \* sender.credit of the one sender link
    minted,         \* number of delivery tags generated so far
    fired,          \* Ids -> number of times the producer's on_settled ran
    putOk,          \* ids whose put / publish returned normally
    accepted,       \* ids whose delivery was settled ACCEPTED
    router,         \* the router daemon: its links and inbound deliveries
    daemon,         \* a daemon process: signals, beat thread, event loop
    files,          \* the files of the spool, with the state of their content
    last            \* what the last handler did

vars == <<clock, queue, deliveries, rejected, undeliverable, credit,
          minted, fired, putOk, accepted, router, daemon, files, last>>

\* What the last step did; every handler fills in what applies.
Idle ==
    [op |-> "init", raised |-> FALSE, ret |-> NoTag, state |-> "",
     tag |-> NoTag, pops |-> 0, message |-> None, sent |-> FALSE,
     sentMsg |-> None, tracked |-> FALSE, delay |-> 0, qat |-> 0, nbf |-> 0,
     undeliverable |-> FALSE, n |-> 0, input |-> NoEnvelope,
     handed |-> NoEnvelope, clean |-> "", link |-> NoLink, copies |-> 0,
     settled |-> FALSE, kind |-> "", limit |-> 0, calls |-> 0, sends |-> 0,
     dry_calls |-> 0, late_calls |-> 0, stopped |-> FALSE, tags |-> {},
     ext |-> "", content |-> "", criterion_doc |-> NoCriterionDoc,
     rule_doc |-> NoRuleDoc, loaded |-> NotLoaded]

Did(name) == [Idle EXCEPT !.op = name]

\* ------------------------------------------------------------ BaseBuffer
\* datetime.timedelta(seconds = n / d), normalised as Python keeps it: whole
\* seconds, and the fraction in whole microseconds, rounded to the nearest
\* one, ties to the even one.
timedelta_seconds(n, d) ==
    LET us == (n % d) * 1000000
        q == us \div d
        r == us % d
        u == IF 2 * r > d \/ (2 * r = d /\ q % 2 = 1) THEN q + 1 ELSE q
    IN [seconds |-> (n \div d) + (u \div 1000000),
        microseconds |-> u % 1000000]

\* datetime + timedelta on the model's clock, which counts ms.
plus(t, td) == t + td.seconds * 1000 + (td.microseconds \div 1000)

\* delay that takes its argument for seconds: timedelta(seconds = delay).
buf_delay_seconds(d, t) ==
    <<t, IF d # 0 THEN plus(t, timedelta_seconds(d, 1)) ELSE t>>

\* BaseBuffer.delay(delay): (queued-at, not-before) at time t, with
\* nbf = now + timedelta(seconds = delay / 1000) for a truthy delay (0 stands
\* for both falsy arguments, None and 0).
buf_delay(d, t) ==
    <<t, IF d # 0 THEN plus(t, timedelta_seconds(d, 1000)) ELSE t>>

\* ---------------------------------------------------------- SpooledBuffer
\* SpooledBuffer.enqueue: write <id>.tmp, fsync, rename onto <id>.amqp.  The
\* rename replaces an entry of the same id; the new file has the newest mtime.
enqueue(q, m, nbf) ==
    Append(SelectSeq(q, LAMBDA e : e.msg.id # m.id), [msg |-> m, nbf |-> nbf])

\* pop without the not-before test: the first entry in mtime order.
first_due_unchecked(q, t, i) == IF i > Len(q) THEN 0 ELSE i

\* pop that walks the listing newest first: the last due entry from i on.
first_due_newest(q, t, i) ==
    LET due == {k \in i..Len(q) : q[k].nbf <= t} IN
    IF due = {} THEN 0 ELSE CHOOSE k \in due : \A j \in due : j <= k

\* Index of the first entry in mtime order, from i on, whose not-before has
\* passed; 0 if there is none.
RECURSIVE first_due(_, _, _)
first_due(q, t, i) ==
    IF i > Len(q) THEN 0
    ELSE IF q[i].nbf > t THEN first_due(q, t, i + 1)
    ELSE i

remove_at(q, i) == [j \in 1..(Len(q) - 1) |-> IF j < i THEN q[j] ELSE q[j + 1]]

\* pop without the break after the first due entry: every due entry is
\* unlinked and the last one decoded is returned.
pop_no_break(q, t) ==
    LET i == first_due_newest(q, t, 1) IN
    IF i = 0 THEN [msg |-> None, nbf |-> 0, queue |-> q]
    ELSE [msg |-> q[i].msg, nbf |-> q[i].nbf,
          queue |-> SelectSeq(q, LAMBDA e : e.nbf > t)]

\* SpooledBuffer.pop / NullBuffer.pop: the first due entry is removed and its
\* message returned; None and an unchanged queue when nothing is due.
pop(q, t) ==
    LET i == first_due(q, t, 1) IN
    IF i = 0 THEN [msg |-> None, nbf |-> 0, queue |-> q]
    ELSE [msg |-> q[i].msg, nbf |-> q[i].nbf, queue |-> remove_at(q, i)]

\* SpooledBuffer.track: write deliveries/<tag>.tmp, fsync, rename to .dstate.
track(d, tag, m) == [d EXCEPT ![tag] = m]

\* SpooledBuffer.error: write the failed record <id>.amqp under rejected/ or
\* undeliverable/.
error(f, m) == [f EXCEPT ![m.id] = m]

\* SpooledBuffer.__len__ / queued, deliveries, failed.
queued == Len(queue)
n_deliveries == Cardinality({t \in Tags : deliveries[t] # None})
failed ==
    Cardinality({i \in Ids : rejected[i] # None})
    + Cardinality({i \in Ids : undeliverable[i] # None})

n_due(q, t) == Cardinality({i \in 1..Len(q) : q[i].nbf <= t})

InQueue(i) == \E k \in 1..Len(queue) : queue[k].msg.id = i
InDeliveries(i) == \E t \in Tags : deliveries[t] # None /\ deliveries[t].id = i
InFailed(i) == rejected[i] # None \/ undeliverable[i] # None

\* The links of the router daemon: the sender it creates to its upstream
\* peer, and the links a peer can initiate: a client that sends to us (our
\* end is a receiver), a client that wants to receive from us, and an
\* upstream peer that wants to receive from us.
Links ==
    {Link(TRUE, "upstream", TRUE), Link(FALSE, "client", FALSE),
     Link(TRUE, "client", FALSE), Link(TRUE, "upstream", FALSE)}

\* ------------------------------------------------------------------ Init
Init ==
    /\ clock = 0
    /\ queue = <<>>
    /\ deliveries = [t \in Tags |-> None]
    /\ rejected = [i \in Ids |-> None]
    /\ undeliverable = [i \in Ids |-> None]
    /\ credit = 0
    /\ minted = 0
    /\ fired = [i \in Ids |-> 0]
    /\ putOk = {}
    /\ accepted = {}
    /\ router = [state |-> [l \in Links |-> "none"],
                 credit |-> [l \in Links |-> 0],
                 settled |-> {}]
    /\ daemon = NoDaemon
    /\ files = NoFiles
    /\ last = Idle

\* --------------------------------------------------------------- actions
\* The clock advances.
Tick ==
    /\ clock < MaxTime
    /\ clock' = clock + 1
    /\ last' = Did("tick")
    /\ UNCHANGED <<queue, deliveries, rejected, undeliverable, credit, minted,
                   fired, putOk, accepted, router, daemon, files>>

\* The peer grants credit on the sender link.
Flow ==
    /\ credit < MaxCredit
    /\ credit' = credit + 1
    /\ last' = Did("flow")
    /\ UNCHANGED <<clock, queue, deliveries, rejected, undeliverable, minted,
                   fired, putOk, accepted, router, daemon, files>>

\* BaseBuffer.put(message, delay): enqueue(message, *delay(delay)).
put(i, d) ==
    /\ queue' = enqueue(queue, Msg(i, 0), buf_delay(d, clock)[2])
    /\ putOk' = putOk \cup {i}
    /\ last' = [Did("put") EXCEPT !.message = Msg(i, 0), !.delay = d]
    /\ UNCHANGED <<clock, deliveries, rejected, undeliverable, credit, minted,
                   fired, accepted, router, daemon, files>>

\* The arguments delay() is called with: small ones, the 300000 of the
\* buffer's test, and a negative one.
DelayArgs == (-1..MaxDelayArg) \cup {300000}

\* A direct call of BaseBuffer.delay(d); the assert rejects a negative d.
delay_call(d) ==
    /\ last' = IF d < 0
               THEN [Did("delay") EXCEPT !.delay = d, !.raised = TRUE]
               ELSE [Did("delay") EXCEPT !.delay = d,
                                         !.qat = buf_delay(d, clock)[1],
                                         !.nbf = buf_delay(d, clock)[2]]
    /\ UNCHANGED <<clock, queue, deliveries, rejected, undeliverable, credit,
                   minted, fired, putOk, accepted, router, daemon, files>>

\* BaseBuffer.generate_tag: 16 random bytes; the k-th tag drawn is named k.
generate_tag(k) == k + 1

\* sender.send(message, tag) of the AMQP library uses one unit of credit when
\* there is any.
send_credit(c) == IF c > 0 THEN c - 1 ELSE 0

\* The outcomes of the steps of transfer that lie outside the buffer:
\* sender.send raises, track raises (I/O error), or both succeed.
Outcomes == {"ok", "send_raises", "track_raises"}

\* BaseBuffer.transfer(host, source, target, sender), with transaction() the
\* default context manager, which only yields.
transfer(outcome) ==
    LET p1 == pop(queue, clock)
        p2 == pop(p1.queue, clock)
        tag == generate_tag(minted)
        t1 == [Did("transfer") EXCEPT !.pops = 1]
        t2 == [Did("transfer") EXCEPT !.pops = 2, !.message = p1.msg,
                                      !.tag = tag]
        ts == [t2 EXCEPT !.sent = TRUE, !.sentMsg = p2.msg]
    IN
    IF p1.msg = None
    THEN /\ outcome = "ok"
         /\ last' = t1
         /\ UNCHANGED <<clock, queue, deliveries, rejected, undeliverable,
                        credit, minted, fired, putOk, accepted, router, daemon,
                        files>>
    ELSE /\ minted < MaxTags
         /\ minted' = tag
         /\ queue' = p2.queue
         /\ IF outcome = "send_raises"
            THEN /\ last' = [t2 EXCEPT !.raised = TRUE]
                 /\ UNCHANGED <<credit, deliveries>>
            ELSE /\ credit' = send_credit(credit)
                 /\ IF outcome = "track_raises"
                    THEN /\ last' = [ts EXCEPT !.raised = TRUE]
                         /\ UNCHANGED deliveries
                    ELSE /\ deliveries' = track(deliveries, tag, p1.msg)
                         /\ last' = [ts EXCEPT !.tracked = TRUE, !.ret = NoTag]
         /\ UNCHANGED <<clock, rejected, undeliverable, fired, putOk, accepted,
                        router, daemon, files>>

\* kill -9 while transfer runs, then a restart on the same spool: after the
\* first pop unlinked its entry (step 1) or after the second pop and the send
\* (step 2), in both cases before track wrote the delivery record.
kill_in_transfer(step) ==
    LET p1 == pop(queue, clock)
        p2 == pop(p1.queue, clock)
    IN
    /\ p1.msg # None
    /\ queue' = IF step = 1 THEN p1.queue ELSE p2.queue
    /\ credit' = 0
    /\ last' = Did("restart")
    /\ UNCHANGED <<clock, deliveries, rejected, undeliverable, minted, fired,
                   putOk, accepted, router, daemon, files>>

\* kill -9 between two handlers, then a restart on the same spool.
restart ==
    /\ credit' = 0
    /\ last' = Did("restart")
    /\ UNCHANGED <<clock, queue, deliveries, rejected, undeliverable, minted,
                   fired, putOk, accepted, router, daemon, files>>

\* ---------------------------------------------------------- BasePublisher
retransmission_delay == 5

RECURSIVE pow(_, _)
pow(b, n) == IF n = 0 THEN 1 ELSE b * pow(b, n - 1)

\* delay(n) with round() in the place of int(): the nearest whole second.
pub_delay_rounded(n) ==
    (2 * retransmission_delay * pow(5, n) + pow(4, n)) \div (2 * pow(4, n))

\* BasePublisher.delay(n) = int(retransmission_delay * 1.25 ** n).
pub_delay(n) == (retransmission_delay * pow(5, n)) \div pow(4, n)

\* A direct call of BasePublisher.delay(n).
pub_delay_call(n) ==
    /\ last' = [Did("pub_delay") EXCEPT !.n = n, !.ret = pub_delay(n)]
    /\ UNCHANGED <<clock, queue, deliveries, rejected, undeliverable, credit,
                   minted, fired, putOk, accepted, router, daemon, files>>

\* BasePublisher.publish(message): delivery_count is reset, an unset id (0) is
\* drawn at random, and the message goes to backend.put without a delay.
publish(i, n) ==
    \E j \in IF i = 0 THEN Ids \ putOk ELSE {i} :
        /\ queue' = enqueue(queue, Msg(j, 0), buf_delay(0, clock)[2])
        /\ putOk' = putOk \cup {j}
        /\ last' = [Did("publish") EXCEPT !.message = Msg(j, 0)]
        /\ UNCHANGED <<clock, deliveries, rejected, undeliverable, credit,
                       minted, fired, accepted, router, daemon, files>>

\* The envelopes the producer calls publish with.
CorrelationIds == {1}
CreationTimes == {0, 1000, 1500}
Envelopes ==
    {Envelope(i, c, t, d, n) :
        i \in Ids \cup {0, NotUuid}, c \in CorrelationIds \cup {0, NotUuid},
        t \in CreationTimes, d \in BOOLEAN, n \in 0..1}

\* What the clean_properties hook does: the default returns the properties,
\* an override may raise ValidationError.
CleanOutcomes == {"ok", "raises"}

\* timezone.now() at clock t, in thousandths; the clock starts one
\* millisecond after the epoch.
timezone_now(t) == (t + 1) * 1000

\* Python's int() on a non-negative number given in thousandths.
int(x) == (x \div 1000) * 1000

\* The normalisation in publish that leaves delivery_count as the caller
\* set it.
normalised_keep_count(m, j, c, now) ==
    Envelope(j, c,
             int(IF m.creation_time = 0 THEN now ELSE m.creation_time),
             TRUE, m.delivery_count)

\* BasePublisher.publish, the assignments before the asserts: durable,
\* delivery_count, creation_time, and id j / correlation_id c, which are the
\* caller's unless they were None.
normalised(m, j, c, now) ==
    Envelope(j, c,
             int(IF m.creation_time = 0 THEN now ELSE m.creation_time),
             TRUE, 0)

\* publish that puts the message before it runs the asserts and the hook.
publish_message_put_first(m, clean) ==
    \E j \in IF m.id = 0 THEN Ids \ putOk ELSE {m.id},
       c \in IF m.correlation_id = 0 THEN CorrelationIds
             ELSE {m.correlation_id} :
        LET out == normalised(m, j, c, timezone_now(clock))
            did == [Did("publish_message") EXCEPT !.input = m, !.clean = clean]
        IN
        /\ j # NotUuid
        /\ queue' = enqueue(queue, Msg(j, 0), buf_delay(0, clock)[2])
        /\ putOk' = putOk \cup {j}
        /\ last' = IF c = NotUuid \/ clean = "raises"
                   THEN [did EXCEPT !.raised = TRUE]
                   ELSE [did EXCEPT !.handed = out, !.message = Msg(j, 0)]
        /\ UNCHANGED <<clock, deliveries, rejected, undeliverable, credit,
                       minted, fired, accepted, router, daemon, files>>

\* BasePublisher.publish(message) on a whole envelope: normalise, assert
\* that id and correlation_id are UUIDs, run clean_properties, and only then
\* backend.put(message).
publish_message(m, clean) ==
    \E j \in IF m.id = 0 THEN Ids \ putOk ELSE {m.id},
       c \in IF m.correlation_id = 0 THEN CorrelationIds
             ELSE {m.correlation_id} :
        LET out == normalised(m, j, c, timezone_now(clock))
            did == [Did("publish_message") EXCEPT !.input = m, !.clean = clean]
        IN
        IF j = NotUuid \/ c = NotUuid \/ clean = "raises"
        THEN /\ last' = [did EXCEPT !.raised = TRUE]
             /\ UNCHANGED <<clock, queue, deliveries, rejected, undeliverable,
                            credit, minted, fired, putOk, accepted, router,
                            daemon, files>>
        ELSE /\ queue' = enqueue(queue, Msg(j, 0), buf_delay(0, clock)[2])
             /\ putOk' = putOk \cup {j}
             /\ last' = [did EXCEPT !.handed = out, !.message = Msg(j, 0)]
             /\ UNCHANGED <<clock, deliveries, rejected, undeliverable, credit,
                            minted, fired, accepted, router, daemon, files>>

\* EventPublisher.publish(name, params, on_settled): builds the EventMessage
\* and calls BasePublisher.publish(message, on_settled=on_settled), which
\* takes no such argument: TypeError, before anything is normalised or put.
event_publish ==
    /\ last' = [Did("event_publish") EXCEPT !.raised = TRUE]
    /\ UNCHANGED <<clock, queue, deliveries, rejected, undeliverable, credit,
                   minted, fired, putOk, accepted, router, daemon, files>>

States == {"ACCEPTED", "REJECTED", "RELEASED", "MODIFIED", "OTHER"}

\* SpooledBuffer.get(tag): the message of the delivery record; LookupError
\* (None here) when there is no record.
get(tag) == deliveries[tag]

\* on_rejected without the increment of delivery_count.
on_rejected_uncounted(f, m) == error(f, m)

\* BasePublisher.on_rejected: message.delivery_count += 1, then
\* backend.error(tag, message) writes the record under rejected/.
on_rejected(f, m) == error(f, [m EXCEPT !.delivery_count = @ + 1])

\* on_released with an increment of delivery_count before the put.
on_released_counted(q, m, t) ==
    enqueue(q, [m EXCEPT !.delivery_count = @ + 1],
            buf_delay(pub_delay(m.delivery_count), t)[2])

\* BasePublisher.on_released:
\* backend.put(message, delay = self.delay(message.delivery_count)).
on_released(q, m, t) ==
    enqueue(q, m, buf_delay(pub_delay(m.delivery_count), t)[2])

\* BasePublisher.on_modified: backend.error(tag, message, undeliverable=True)
\* when the disposition says undeliverable, else the same put as on_released.
\* The result is the pair (queue, undeliverable/).
on_modified(q, f, m, t, undeliv) ==
    IF undeliv THEN <<q, error(f, m)>>
    ELSE <<enqueue(q, m, buf_delay(pub_delay(m.delivery_count), t)[2]), f>>

\* BasePublisher.on_settled(delivery, state, disposition) with the handlers
\* it dispatches to: on_accepted (pass), on_rejected, on_released,
\* on_modified.  A state that is none of the four falls through every `if`.
on_settled(tag, state, undeliv) ==
    LET m == get(tag)
        s0 == [Did("on_settled") EXCEPT !.tag = tag, !.state = state,
                                        !.message = m]
        modified == on_modified(queue, undeliverable, m, clock, undeliv)
    IN
    /\ IF state = "OTHER"
       THEN /\ last' = s0
            /\ UNCHANGED <<queue, rejected, undeliverable, accepted>>
       ELSE IF m = None
       THEN /\ last' = [s0 EXCEPT !.raised = TRUE]
            /\ UNCHANGED <<queue, rejected, undeliverable, accepted>>
       ELSE /\ last' = [s0 EXCEPT !.undeliverable =
                                       (state = "MODIFIED" /\ undeliv)]
            /\ accepted' = IF state = "ACCEPTED" THEN accepted \cup {m.id}
                           ELSE accepted
            /\ queue' = IF state = "RELEASED"
                        THEN on_released(queue, m, clock)
                        ELSE IF state = "MODIFIED" THEN modified[1]
                        ELSE queue
            /\ rejected' = IF state = "REJECTED" THEN on_rejected(rejected, m)
                           ELSE rejected
            /\ undeliverable' = IF state = "MODIFIED" THEN modified[2]
                                ELSE undeliverable
    /\ UNCHANGED <<clock, deliveries, credit, minted, fired, putOk, router,
                   daemon, files>>

\* SpooledBuffer.on_accepted(delivery, message, disposition): unlink the
\* delivery record; os.unlink raises when there is none.
buf_on_accepted(tag) ==
    /\ IF deliveries[tag] = None
       THEN /\ last' = [Did("buf_on_accepted") EXCEPT !.tag = tag,
                                                      !.raised = TRUE]
            /\ UNCHANGED <<deliveries, accepted>>
       ELSE /\ last' = [Did("buf_on_accepted") EXCEPT !.tag = tag]
            /\ deliveries' = [deliveries EXCEPT ![tag] = None]
            /\ accepted' = accepted \cup {deliveries[tag].id}
    /\ UNCHANGED <<clock, queue, rejected, undeliverable, credit, minted,
                   fired, putOk, router, daemon, files>>

\* A direct call of pop(), as the buffer's tests make it.
pop_call ==
    LET p == pop(queue, clock) IN
    /\ queue' = p.queue
    /\ last' = [Did("pop") EXCEPT !.pops = 1, !.message = p.msg]
    /\ UNCHANGED <<clock, deliveries, rejected, undeliverable, credit, minted,
                   fired, putOk, accepted, router, daemon, files>>

\* ---------------------------------------------------------- MessageRouter
\* The credit on_link_opened grants to a receiving link.
link_credit == 1000

\* MessageRouter.on_start: create_sender(addr) for the upstream peer; the
\* link opens when the peer answers.
on_start ==
    /\ router.state[Link(TRUE, "upstream", TRUE)] = "none"
    /\ router' = [router EXCEPT !.state[Link(TRUE, "upstream", TRUE)] =
                                     "opening"]
    /\ last' = [Did("on_start") EXCEPT !.link = Link(TRUE, "upstream", TRUE)]
    /\ UNCHANGED <<clock, queue, deliveries, rejected, undeliverable, credit,
                   minted, fired, putOk, accepted, daemon, files>>

\* MessageRouter.on_link_opening(event), for a link the peer initiates: for
\* a sender link the peer address is looked up and nothing is done with it.
\* The AMQP library opens our end once the handler has returned.
on_link_opening(l) ==
    /\ ~l.local
    /\ router.state[l] = "none"
    /\ router' = [router EXCEPT !.state[l] = "opening"]
    /\ last' = [Did("on_link_opening") EXCEPT !.link = l]
    /\ UNCHANGED <<clock, queue, deliveries, rejected, undeliverable, credit,
                   minted, fired, putOk, accepted, daemon, files>>

\* MessageRouter.on_link_opened(event): both ends are open; a receiving link
\* is given link_credit.
on_link_opened(l) ==
    /\ router.state[l] = "opening"
    /\ router' = [router EXCEPT !.state[l] = "open",
                                !.credit[l] = IF l.is_sender THEN @
                                              ELSE @ + link_credit]
    /\ last' = [Did("on_link_opened") EXCEPT !.link = l]
    /\ UNCHANGED <<clock, queue, deliveries, rejected, undeliverable, credit,
                   minted, fired, putOk, accepted, daemon, files>>

\* Router.route(m): the destinations of the rules that match, in order and
\* without duplicates; n of them are named 1..n.
router_route(n) == [k \in 1..n |-> k]

\* MessageRouter.route(event), the loop over the destinations: m.address =
\* route, then self.buf.put(m, on_settled = self.on_message_persisted).
\* BaseBuffer.put takes (message, delay): the call raises TypeError for the
\* first destination, no copy is enqueued.
route(dests) ==
    [copies |-> 0, raised |-> Len(dests) >= 1]

\* on_message that settles the delivery whether route raised or not.
on_message_settle_always(l, i, n) ==
    LET r == route(router_route(n)) IN
    /\ ~l.is_sender
    /\ router.state[l] = "open"
    /\ router.credit[l] > link_credit - MaxInbound
    /\ router' = [router EXCEPT !.credit[l] = @ - 1 + 1,
                                !.settled = @ \cup {i}]
    /\ last' = [Did("on_message") EXCEPT !.link = l, !.message = Msg(i, 0),
                                         !.n = n, !.copies = r.copies,
                                         !.raised = r.raised,
                                         !.settled = TRUE]
    /\ UNCHANGED <<clock, queue, deliveries, rejected, undeliverable, credit,
                   minted, fired, putOk, accepted, daemon, files>>

\* MessageRouter.on_message(event) for message i arriving on receiving link
\* l (the transfer used one credit) with n matching destinations: route()
\* enqueues the copies, then l.flow(1) and settle(d, ACCEPTED); an exception
\* in route() is logged and ends the handler.
on_message(l, i, n) ==
    LET r == route(router_route(n)) IN
    /\ ~l.is_sender
    /\ router.state[l] = "open"
    /\ router.credit[l] > link_credit - MaxInbound
    /\ router' = [router EXCEPT !.credit[l] = IF r.raised THEN @ - 1
                                              ELSE @ - 1 + 1,
                                !.settled = IF r.raised THEN @
                                            ELSE @ \cup {i}]
    /\ last' = [Did("on_message") EXCEPT !.link = l, !.message = Msg(i, 0),
                                         !.n = n, !.copies = r.copies,
                                         !.raised = r.raised,
                                         !.settled = ~r.raised]
    /\ UNCHANGED <<clock, queue, deliveries, rejected, undeliverable, credit,
                   minted, fired, putOk, accepted, daemon, files>>

\* ------------------------------------------ SpooledBuffer, file by file
\* The directories of the spool that hold records.
Dirs == {".", "deliveries", "rejected", "undeliverable"}

\* The extension of a record under its final name.
final_ext(d) == IF d = "deliveries" THEN "dstate" ELSE "amqp"

\* A write that opens the file under its final name.
write_ext_final(d) == final_ext(d)

\* The extension of the file that enqueue, track and error open for writing.
write_ext(d) == "tmp"

\* glob.glob of <dir>/*.<ext> on the files there are.
glob(disk, d, e) == {x \in disk : x.dir = d /\ x.ext = e}

\* SpooledBuffer._list_queued, _list_deliveries, and the listing of failed.
list_queued(disk) == glob(disk, ".", "amqp")
list_deliveries(disk) == glob(disk, "deliveries", "dstate")
list_failed(disk) ==
    UNION {glob(disk, d, "amqp") : d \in Dirs \ {"."}}

\* How much of a content is there.
Contents == <<"empty", "partial", "full">>
amount(c) == CHOOSE k \in 1..3 : Contents[k] = c

\* The file a write is working on.
written(disk, w) ==
    CHOOSE x \in disk : x.dir = w.dir /\ x.ext = write_ext(w.dir)

\* enqueue (d = "."), track (d = "deliveries") and error (d = "rejected" or
\* "undeliverable") begin: open(dst, 'wb') creates the file, or truncates
\* the one that is there.
write_open(d) ==
    /\ files.write.pc = "idle"
    /\ files' = [files EXCEPT
                     !.disk = {x \in @ : ~(x.dir = d /\ x.ext = write_ext(d))}
                              \cup {File(d, write_ext(d), "empty", FALSE)},
                     !.write = [dir |-> d, pc |-> "write"]]
    /\ last' = [Did("write_open") EXCEPT !.state = d]
    /\ UNCHANGED <<clock, queue, deliveries, rejected, undeliverable, credit,
                   minted, fired, putOk, accepted, router, daemon>>

\* f.write(...) of the header and the encoded message: the data goes to the
\* buffer of the file object, and none, a part or all of it to the file.
write_data(c) ==
    LET x == written(files.disk, files.write) IN
    /\ files.write.pc = "write"
    /\ files' = [files EXCEPT
                     !.disk = (@ \ {x}) \cup {[x EXCEPT !.content = c]},
                     !.write.pc = "flush"]
    /\ last' = [Did("write_data") EXCEPT !.content = c]
    /\ UNCHANGED <<clock, queue, deliveries, rejected, undeliverable, credit,
                   minted, fired, putOk, accepted, router, daemon>>

\* f.flush(): all of the data is in the file.
write_flush ==
    LET x == written(files.disk, files.write) IN
    /\ files.write.pc = "flush"
    /\ files' = [files EXCEPT
                     !.disk = (@ \ {x}) \cup {[x EXCEPT !.content = "full"]},
                     !.write.pc = "fsync"]
    /\ last' = Did("write_flush")
    /\ UNCHANGED <<clock, queue, deliveries, rejected, undeliverable, credit,
                   minted, fired, putOk, accepted, router, daemon>>

\* os.fsync(f.fileno()): the content is on stable storage.
write_fsync ==
    LET x == written(files.disk, files.write) IN
    /\ files.write.pc = "fsync"
    /\ files' = [files EXCEPT
                     !.disk = (@ \ {x}) \cup {[x EXCEPT !.synced = TRUE]},
                     !.write.pc = "rename"]
    /\ last' = Did("write_fsync")
    /\ UNCHANGED <<clock, queue, deliveries, rejected, undeliverable, credit,
                   minted, fired, putOk, accepted, router, daemon>>

\* os.rename(dst, <final name>): the file takes the final name, in the place
\* of a record that had it.
write_rename ==
    LET x == written(files.disk, files.write)
        d == files.write.dir
    IN
    /\ files.write.pc = "rename"
    /\ files' = [files EXCEPT
                     !.disk = {y \in @ : y # x /\ ~(y.dir = d
                                                    /\ y.ext = final_ext(d))}
                              \cup {[x EXCEPT !.ext = final_ext(d)]},
                     !.write = NoWrite]
    /\ last' = [Did("write_rename") EXCEPT !.state = d]
    /\ UNCHANGED <<clock, queue, deliveries, rejected, undeliverable, credit,
                   minted, fired, putOk, accepted, router, daemon>>

\* What is left of a file when the machine stops: all of it when it was
\* fsynced, else at most what had reached it, down to the amount c.
survives(x, c) ==
    IF x.synced \/ amount(x.content) <= amount(c) THEN x
    ELSE [x EXCEPT !.content = c]

\* The process stops at any step, killed (c = "full": the files stay as they
\* are) or with the machine (c says what is left of a file that was not
\* fsynced), and starts again on the same spool.
kill_in_write(c) ==
    /\ files.kills < MaxKills
    /\ files.disk # {}
    /\ files' = [files EXCEPT
                     !.disk = {survives(x, c) : x \in @},
                     !.write = NoWrite,
                     !.kills = @ + 1]
    /\ last' = [Did("kill_in_write") EXCEPT !.content = c,
                                            !.state = files.write.pc]
    /\ UNCHANGED <<clock, queue, deliveries, rejected, undeliverable, credit,
                   minted, fired, putOk, accepted, router, daemon>>

\* SpooledBuffer.pop on the files: a file of _list_queued is read and
\* unlinked.
file_pop ==
    /\ files.write.pc = "idle"
    /\ \E x \in list_queued(files.disk) :
           /\ files' = [files EXCEPT !.disk = @ \ {x}]
           /\ last' = [Did("file_pop") EXCEPT !.ext = x.ext,
                                              !.content = x.content,
                                              !.settled = x.synced]
    /\ UNCHANGED <<clock, queue, deliveries, rejected, undeliverable, credit,
                   minted, fired, putOk, accepted, router, daemon>>

\* ------------------------------------------- CriterionSchema, RuleSchema
\* The keys of Criterion._matching_ops, the operators a criterion may name.
matching_ops ==
    {"eq", "ne", "in", "nin", "exists", "notexists", "matches", "startswith",
     "endswith", "gt", "lt", "gte", "lte"}

\* The criterion documents: each key there or not, the operator one of the
\* set, one in another case, or one that is not in the set.
CriterionDocs ==
    {CriterionDoc(n, o, v) :
        n \in {Missing, Given("priority")},
        o \in {Missing, Given("eq"), Given("EQ"), Given("like")},
        v \in {Missing, Given("high")}}

\* The lists of up to n criterion documents.
RECURSIVE CriterionLists(_)
CriterionLists(n) ==
    IF n = 0 THEN {<<>>}
    ELSE CriterionLists(n - 1)
         \cup {Append(l, c) : l \in {k \in CriterionLists(n - 1) :
                                         Len(k) = n - 1},
                              c \in CriterionDocs}

\* The rule documents.
RuleDocs ==
    {RuleDoc(d, c, e, r) :
        d \in {Missing, Given(<<>>), Given(<<"q1">>)},
        c \in {Missing} \cup {Given(l) : l \in CriterionLists(MaxCriterions)},
        e \in {Missing, Given(<<"q2">>)},
        r \in {Missing, Given(TRUE), Given(FALSE)}}

\* The fields of CriterionSchema: attname (load_from name, required), op
\* (load_from operator, required, OneOf the matching operators), value
\* (required).  The result is the set of keys with an error.
criterion_errors(c) ==
    {k \in {"name"} : c.name = Missing}
    \cup {k \in {"operator"} :
              c.operator = Missing \/ c.operator[1] \notin matching_ops}
    \cup {k \in {"value"} : c.value = Missing}

\* CriterionSchema.load: the params and the errors when there are errors,
\* else Criterion(**params).
criterion_load(c) ==
    IF criterion_errors(c) # {}
    THEN Loaded("dict", criterion_errors(c), <<>>, FALSE)
    ELSE Loaded("Criterion", {}, <<>>, FALSE)

\* The fields of RuleSchema without the Length validator of criterions.
rule_errors_any_length(r) ==
    {k \in {"destinations"} : r.destinations = Missing}
    \cup {k \in {"criterions"} :
              \/ r.criterions = Missing
              \/ \E i \in 1..Len(r.criterions[1]) :
                     criterion_load(r.criterions[1][i]).errors # {}}

\* The fields of RuleSchema: destinations (a list, required), criterions (a
\* list of nested CriterionSchema, required, Length(min = 1)), exclude and
\* return_to_sender (not required).
rule_errors(r) ==
    {k \in {"destinations"} : r.destinations = Missing}
    \cup {k \in {"criterions"} :
              \/ r.criterions = Missing
              \/ Len(r.criterions[1]) < 1
              \/ \E i \in 1..Len(r.criterions[1]) :
                     criterion_load(r.criterions[1][i]).errors # {}}

\* RuleSchema.load: the params and the errors when there are errors, else
\* Rule(**params), with missing = list for exclude and missing = False for
\* return_to_sender.
rule_load(r) ==
    IF rule_errors(r) # {}
    THEN Loaded("dict", rule_errors(r), <<>>, FALSE)
    ELSE Loaded("Rule", {},
                IF r.exclude = Missing THEN <<>> ELSE r.exclude[1],
                IF r.return_to_sender = Missing THEN FALSE
                ELSE r.return_to_sender[1])

\* A call of CriterionSchema().load(c).
criterion_schema_load(c) ==
    /\ last' = [Did("criterion_load") EXCEPT !.criterion_doc = c,
                                             !.loaded = criterion_load(c)]
    /\ UNCHANGED <<clock, queue, deliveries, rejected, undeliverable, credit,
                   minted, fired, putOk, accepted, router, daemon, files>>

\* A call of RuleSchema().load(r).
rule_schema_load(r) ==
    /\ last' = [Did("rule_load") EXCEPT !.rule_doc = r,
                                        !.loaded = rule_load(r)]
    /\ UNCHANGED <<clock, queue, deliveries, rejected, undeliverable, credit,
                   minted, fired, putOk, accepted, router, daemon, files>>

\* ------------------------------------- MessagePublisher and MessageRouter
\* The daemons: "publisher" is aorta.publisher.__main__.MessagePublisher,
\* "router" is aorta.router.__main__.MessageRouter.
Kinds == {"publisher", "router"}
Signals == {"SIGHUP", "SIGINT", "SIGTERM"}

\* The default limit of flush.
publisher_limit == 20
router_limit == 100

\* The beats that wait on the event injector.
beats(events) == Len(SelectSeq(events, LAMBDA e : e = "beat"))

\* main(argv): the handler is built (__init__ installs signal_handler) and
\* Container(handler).run() delivers on_start: the sender link to the peer is
\* created, the router listens, the injector is made selectable and the beat
\* thread is started.
main(k) ==
    /\ daemon.kind = "none"
    /\ daemon' = [NoDaemon EXCEPT !.kind = k, !.container = "running",
                                  !.sender = "open", !.connection = "up",
                                  !.server = IF k = "router" THEN "listening"
                                             ELSE "none",
                                  !.thread = "check"]
    /\ last' = [Did("main") EXCEPT !.kind = k]
    /\ UNCHANGED <<clock, queue, deliveries, rejected, undeliverable, credit,
                   minted, fired, putOk, accepted, router, files>>

\* signal_handler(signum, frame), run by the main thread between any two
\* steps of it: SIGHUP does nothing; SIGINT and SIGTERM set must_stop and
\* trigger a teardown event on the injector, whatever its state.
signal_handler(signum) ==
    /\ daemon.kind # "none"
    /\ daemon.container # "stopped"
    /\ daemon.signals < MaxSignals
    /\ daemon' = IF signum = "SIGHUP"
                 THEN [daemon EXCEPT !.signals = @ + 1]
                 ELSE [daemon EXCEPT
                           !.signals = @ + 1,
                           !.must_stop = TRUE,
                           !.events = Append(@, "teardown"),
                           !.stale = @ \/ daemon.injector = "closed"]
    /\ last' = [Did("signal_handler") EXCEPT !.kind = daemon.kind,
                                             !.state = signum,
                                             !.stopped = daemon.must_stop]
    /\ UNCHANGED <<clock, queue, deliveries, rejected, undeliverable, credit,
                   minted, fired, putOk, accepted, router, files>>

\* main_event_loop, the test at the top of the loop of the beat thread:
\* break when must_stop is set.
main_event_loop_check ==
    /\ daemon.thread = "check"
    /\ daemon' = [daemon EXCEPT !.thread = IF daemon.must_stop THEN "done"
                                           ELSE "trigger"]
    /\ last' = [Did("main_event_loop_check") EXCEPT
                    !.kind = daemon.kind, !.stopped = daemon.must_stop]
    /\ UNCHANGED <<clock, queue, deliveries, rejected, undeliverable, credit,
                   minted, fired, putOk, accepted, router, files>>

\* main_event_loop, the rest of the loop body: trigger a beat event, sleep
\* 1 / framerate.  Beats beyond MaxEvents waiting ones are not told apart.
main_event_loop_trigger ==
    /\ daemon.thread = "trigger"
    /\ daemon' = [daemon EXCEPT
                      !.thread = "check",
                      !.events = IF beats(@) < MaxEvents
                                 THEN Append(@, "beat") ELSE @,
                      !.beat_closed = @ \/ daemon.injector = "closed"]
    /\ last' = [Did("main_event_loop_trigger") EXCEPT
                    !.kind = daemon.kind, !.stopped = daemon.must_stop]
    /\ UNCHANGED <<clock, queue, deliveries, rejected, undeliverable, credit,
                   minted, fired, putOk, accepted, router, files>>

\* The container hands the next injected event to the handler while it runs
\* and no other callback is active.
Dispatches(e) ==
    /\ daemon.container = "running"
    /\ daemon.handler = "idle"
    /\ daemon.events # <<>>
    /\ Head(daemon.events) = e

\* on_teardown(event), up to the join: the router closes its listener
\* first; then the main thread waits in self.thread.join().
on_teardown ==
    /\ Dispatches("teardown")
    /\ daemon' = [daemon EXCEPT
                      !.events = Tail(@),
                      !.handler = "join",
                      !.teardowns = @ + 1,
                      !.server = IF daemon.kind = "router" THEN "closed"
                                 ELSE @]
    /\ last' = [Did("on_teardown") EXCEPT !.kind = daemon.kind,
                                          !.stopped = daemon.must_stop]
    /\ UNCHANGED <<clock, queue, deliveries, rejected, undeliverable, credit,
                   minted, fired, putOk, accepted, router, files>>

\* on_teardown that does not wait for the beat thread.
on_teardown_no_join ==
    /\ daemon.handler = "join"
    /\ daemon' = [daemon EXCEPT !.handler = "close"]
    /\ last' = [Did("on_teardown_join") EXCEPT !.kind = daemon.kind]
    /\ UNCHANGED <<clock, queue, deliveries, rejected, undeliverable, credit,
                   minted, fired, putOk, accepted, router, files>>

\* on_teardown: self.thread.join() returns once the beat thread has ended.
on_teardown_join ==
    /\ daemon.handler = "join"
    /\ daemon.thread = "done"
    /\ daemon' = [daemon EXCEPT !.handler = "close"]
    /\ last' = [Did("on_teardown_join") EXCEPT !.kind = daemon.kind]
    /\ UNCHANGED <<clock, queue, deliveries, rejected, undeliverable, credit,
                   minted, fired, putOk, accepted, router, files>>

\* on_teardown: self.injector.close().
on_teardown_close ==
    /\ daemon.handler = "close"
    /\ daemon' = [daemon EXCEPT !.handler = "stop", !.injector = "closed"]
    /\ last' = [Did("on_teardown_close") EXCEPT !.kind = daemon.kind]
    /\ UNCHANGED <<clock, queue, deliveries, rejected, undeliverable, credit,
                   minted, fired, putOk, accepted, router, files>>

\* The links on_teardown closes: the router every link of self.senders, the
\* publisher the links of self.sendables, those with credit.
closes(k, c) == k = "router" \/ c > 0

\* on_teardown: the sender links are closed, then self.container.stop().
on_teardown_stop ==
    /\ daemon.handler = "stop"
    /\ daemon' = [daemon EXCEPT
                      !.handler = "idle",
                      !.container = "stopped",
                      !.sender = IF closes(daemon.kind, credit) THEN "closed"
                                 ELSE @]
    /\ last' = [Did("on_teardown_stop") EXCEPT !.kind = daemon.kind]
    /\ UNCHANGED <<clock, queue, deliveries, rejected, undeliverable, credit,
                   minted, fired, putOk, accepted, router, files>>

\* What a flush works on: the buffer, the credit of the link and the tags
\* drawn so far, with a record of the transfer calls it makes: calls, sends,
\* dry_calls (made while the link had no credit), late_calls (made after a
\* transfer had returned None), none (a transfer has returned None), tags
\* (the delivery tags given to sender.send).
Buf ==
    [queue |-> queue, deliveries |-> deliveries, credit |-> credit,
     minted |-> minted, calls |-> 0, sends |-> 0, dry_calls |-> 0,
     late_calls |-> 0, none |-> FALSE, raised |-> FALSE, ret |-> NoTag,
     tags |-> {}]

\* The call of transfer is counted.
called(b) ==
    [b EXCEPT !.calls = @ + 1,
              !.dry_calls = IF b.credit = 0 THEN @ + 1 ELSE @,
              !.late_calls = IF b.none THEN @ + 1 ELSE @]

\* self.buf.transfer(host, source, target, sender) as the router calls it:
\* BaseBuffer.transfer, which pops twice, sends, tracks, and has no return
\* statement that gives the tag: the result is None after a send as well.
buf_transfer(b) ==
    LET p1 == pop(b.queue, clock)
        p2 == pop(p1.queue, clock)
        tag == generate_tag(b.minted)
        c == [called(b) EXCEPT !.none = TRUE, !.ret = NoTag]
    IN
    IF p1.msg = None THEN c
    ELSE [c EXCEPT !.queue = p2.queue, !.minted = tag,
                   !.credit = send_credit(@),
                   !.deliveries = track(@, tag, p1.msg),
                   !.sends = @ + 1, !.tags = @ \cup {tag}]

\* self.buf.transfer(host, source, target, sender, channel = self.channel)
\* as the publisher calls it: BaseBuffer.transfer has no parameter channel,
\* the call raises TypeError before the buffer is touched.
buf_transfer_channel(b) == [called(b) EXCEPT !.raised = TRUE]

\* The loop of flush without the test of the link's credit.
RECURSIVE flush_loop_any_credit(_, _, _, _)
flush_loop_any_credit(k, b, i, limit) ==
    IF i >= limit THEN b
    ELSE IF k = "publisher" THEN buf_transfer_channel(b)
    ELSE LET r == buf_transfer(b) IN
         IF r.ret = NoTag THEN r
         ELSE flush_loop_any_credit(k, r, i + 1, limit)

\* The loop of flush, from iteration i on: break when the link has no
\* credit, call transfer; the router breaks when transfer returned None, the
\* publisher has no such test.
RECURSIVE flush_loop(_, _, _, _)
flush_loop(k, b, i, limit) ==
    IF i >= limit THEN b
    ELSE IF b.credit = 0 THEN b
    ELSE IF k = "publisher" THEN buf_transfer_channel(b)
    ELSE LET r == buf_transfer(b) IN
         IF r.ret = NoTag THEN r
         ELSE flush_loop(k, r, i + 1, limit)

\* flush without the test of must_stop.
flush_unguarded(k, stop, b, limit) == flush_loop(k, b, 0, limit)

\* flush(link, limit): nothing when must_stop is set, else the loop.
flush(k, stop, b, limit) == IF stop THEN b ELSE flush_loop(k, b, 0, limit)

\* flush(link) with the default limit of the daemon.
default_limit(k) == IF k = "publisher" THEN publisher_limit ELSE router_limit

\* A callback of the daemon that ran flush(link, limit) with result r; the
\* tags it drew are among the MaxTags there are.
Flushed(op, limit, r) ==
    /\ r.minted <= MaxTags
    /\ queue' = r.queue
    /\ deliveries' = r.deliveries
    /\ credit' = r.credit
    /\ minted' = r.minted
    /\ last' = [Did(op) EXCEPT !.kind = daemon.kind,
                               !.stopped = daemon.must_stop,
                               !.limit = limit, !.calls = r.calls,
                               !.sends = r.sends, !.dry_calls = r.dry_calls,
                               !.late_calls = r.late_calls,
                               !.raised = r.raised, !.tags = r.tags]
    /\ UNCHANGED <<clock, rejected, undeliverable, fired, putOk, accepted,
                   router, files>>

\* on_beat(event): nothing without a sendable link, else flush(link) on one
\* of them.
on_beat ==
    /\ Dispatches("beat")
    /\ daemon' = [daemon EXCEPT !.events = Tail(@)]
    /\ Flushed("on_beat", default_limit(daemon.kind),
               IF credit = 0 THEN Buf
               ELSE flush(daemon.kind, daemon.must_stop, Buf,
                          default_limit(daemon.kind)))

\* on_sendable(event), delivered for a link that has credit: flush(link).
on_sendable ==
    /\ daemon.container = "running"
    /\ daemon.handler = "idle"
    /\ daemon.sender = "open"
    /\ credit > 0
    /\ UNCHANGED daemon
    /\ Flushed("on_sendable", default_limit(daemon.kind),
               flush(daemon.kind, daemon.must_stop, Buf,
                     default_limit(daemon.kind)))

\* MessageRouter.on_message_persisted(message): flush(link) on a sendable
\* link when there is one.
on_message_persisted ==
    /\ daemon.kind = "router"
    /\ daemon.container = "running"
    /\ daemon.handler = "idle"
    /\ UNCHANGED daemon
    /\ Flushed("on_message_persisted", router_limit,
               IF credit = 0 THEN Buf
               ELSE flush("router", daemon.must_stop, Buf, router_limit))

\* A direct call of flush(link, limit) with any limit, on a link with or
\* without credit.
flush_call(limit) ==
    /\ daemon.container = "running"
    /\ daemon.handler = "idle"
    /\ UNCHANGED daemon
    /\ Flushed("flush", limit,
               flush(daemon.kind, daemon.must_stop, Buf, limit))

\* The connection to the peer is lost.  Neither daemon defines a callback
\* for it: the spool is left as it is; the link has no credit any more, and
\* the deliveries that have a record are the ones in flight.
on_disconnected ==
    /\ daemon.container = "running"
    /\ daemon.handler = "idle"
    /\ daemon.connection = "up"
    /\ n_deliveries >= 1
    /\ daemon' = [daemon EXCEPT
                      !.connection = "down",
                      !.lost = {t \in Tags : deliveries[t] # None}]
    /\ credit' = 0
    /\ last' = [Did("on_disconnected") EXCEPT !.kind = daemon.kind]
    /\ UNCHANGED <<clock, queue, deliveries, rejected, undeliverable, minted,
                   fired, putOk, accepted, router, files>>

\* The AMQP library has connected again and attached the sender link anew.
\* on_start is not delivered again, and no callback of the daemons reads
\* the delivery records.
on_reconnected ==
    /\ daemon.container = "running"
    /\ daemon.handler = "idle"
    /\ daemon.connection = "down"
    /\ daemon' = [daemon EXCEPT !.connection = "up"]
    /\ last' = [Did("on_reconnected") EXCEPT !.kind = daemon.kind]
    /\ UNCHANGED <<clock, queue, deliveries, rejected, undeliverable, credit,
                   minted, fired, putOk, accepted, router, files>>

\* ------------------------------------------------------- specifications
Env == Tick \/ Flow

Producer ==
    \/ \E i \in Ids, d \in Delays : put(i, d)
    \/ \E i \in Ids \cup {0}, n \in 0..1 : publish(i, n)
    \/ event_publish

Sender == \E o \in Outcomes : transfer(o)

Settlement ==
    \/ \E t \in Tags, s \in States, u \in BOOLEAN : on_settled(t, s, u)
    \/ \E t \in Tags : buf_on_accepted(t)

Crash ==
    \/ \E k \in 1..2 : kill_in_transfer(k)
    \/ restart

\* The publisher process: producers, the sender link, settlements, crashes.
Next == Env \/ Producer \/ Sender \/ Settlement \/ Crash

Spec == Init /\ [][Next]_vars

\* The same when nothing goes wrong: no crash, and sender.send and track
\* never raise.
NextNoFailure == Env \/ Producer \/ transfer("ok") \/ Settlement

SpecNoFailure == Init /\ [][NextNoFailure]_vars

\* The buffer on its own, driven through its interface.
NextBuffer ==
    \/ Env
    \/ \E i \in Ids, d \in Delays : put(i, d)
    \/ pop_call
    \/ Sender

SpecBuffer == Init /\ [][NextBuffer]_vars

\* Deliveries and their settlement: puts, transfers that succeed, and the
\* outcomes the peer reports.
NextSettlement ==
    \/ \E i \in Ids : put(i, 0)
    \/ transfer("ok")
    \/ \E t \in Tags, s \in States, u \in BOOLEAN : on_settled(t, s, u)

SpecSettlement == Init /\ [][NextSettlement]_vars

\* The router daemon: its links and the messages that arrive on them.
NextRouter ==
    \/ on_start
    \/ \E l \in Links : on_link_opening(l)
    \/ \E l \in Links : on_link_opened(l)
    \/ \E l \in Links, i \in Ids, n \in 0..MaxDests : on_message(l, i, n)

SpecRouter == Init /\ [][NextRouter]_vars

\* BasePublisher.publish on its own, called with any envelope, and the pops
\* that take the messages off the queue again.
NextPublish ==
    \/ \E m \in Envelopes, c \in CleanOutcomes : publish_message(m, c)
    \/ pop_call

SpecPublish == Init /\ [][NextPublish]_vars

\* The two delay computations on their own, called at any time with any
\* argument: BaseBuffer.delay and BasePublisher.delay.
NextDelay ==
    \/ Tick
    \/ \E d \in DelayArgs : delay_call(d)
    \/ \E n \in 0..MaxRetries : pub_delay_call(n)

SpecDelay == Init /\ [][NextDelay]_vars

\* A daemon from main() to the end of its teardown: signals, the beat
\* thread, the beats the event loop hands over, the teardown, and the peer
\* that grants credit.
NextDaemon ==
    \/ \E k \in Kinds : main(k)
    \/ \E g \in Signals : signal_handler(g)
    \/ main_event_loop_check
    \/ main_event_loop_trigger
    \/ on_beat
    \/ on_teardown
    \/ on_teardown_join
    \/ on_teardown_close
    \/ on_teardown_stop
    \/ Flow

SpecDaemon == Init /\ [][NextDaemon]_vars

\* A daemon that drains its buffer, before and after the signal that sets
\* must_stop: the callbacks that flush, the producers that fill the queue
\* and the peer that grants credit.
NextFlush ==
    \/ \E k \in Kinds : main(k)
    \/ \E g \in Signals \ {"SIGHUP"} : ~daemon.must_stop /\ signal_handler(g)
    \/ main_event_loop_check
    \/ main_event_loop_trigger
    \/ on_beat
    \/ on_sendable
    \/ on_message_persisted
    \/ \E n \in 0..MaxLimit : flush_call(n)
    \/ \E i \in Ids : put(i, 0)
    \/ Flow

SpecFlush == Init /\ [][NextFlush]_vars

\* The daemon of SpecDaemon with its scheduling: the beat thread keeps
\* running, and the event loop keeps handing injected events to the handler
\* and lets a callback that has begun run to its end.
SpecDaemonFair ==
    /\ SpecDaemon
    /\ WF_vars(main_event_loop_check)
    /\ WF_vars(main_event_loop_trigger)
    /\ WF_vars(on_beat)
    /\ WF_vars(on_teardown)
    /\ WF_vars(on_teardown_join)
    /\ WF_vars(on_teardown_close)
    /\ WF_vars(on_teardown_stop)

\* A daemon that loses its connection once and gets it back: the peer
\* grants credit while the connection is up and settles deliveries it knows
\* of, which the ones in flight at the loss are not.
NextReconnect ==
    \/ \E k \in Kinds : main(k)
    \/ \E i \in Ids : put(i, 0)
    \/ daemon.connection = "up" /\ Flow
    \/ daemon.connection = "up" /\ on_sendable
    \/ daemon.lost = {} /\ on_disconnected
    \/ on_reconnected
    \/ \E t \in Tags \ daemon.lost, s \in States :
           daemon.connection = "up" /\ on_settled(t, s, FALSE)

\* With its scheduling: the library reconnects, the peer grants credit, and
\* the event loop delivers the sendable events.
SpecReconnect ==
    /\ Init
    /\ [][NextReconnect]_vars
    /\ WF_vars(on_reconnected)
    /\ WF_vars(daemon.connection = "up" /\ Flow)
    /\ WF_vars(daemon.connection = "up" /\ on_sendable)

\* The spool file by file: the writes of enqueue, track and error step by
\* step, the stops at any step, and the pops.
NextSpool ==
    \/ \E d \in Dirs : write_open(d)
    \/ \E k \in 1..3 : write_data(Contents[k])
    \/ write_flush
    \/ write_fsync
    \/ write_rename
    \/ \E k \in 1..3 : kill_in_write(Contents[k])
    \/ file_pop

SpecSpool == Init /\ [][NextSpool]_vars

\* The two schemas, loading any document.  A load reads nothing but its
\* document, so each document is loaded from the initial state.
NextSchema ==
    \/ last = Idle /\ \E c \in CriterionDocs : criterion_schema_load(c)
    \/ last = Idle /\ \E r \in RuleDocs : rule_schema_load(r)

SpecSchema == Init /\ [][NextSchema]_vars

\* ------------------------------------------------------------ properties
\* C1: in every state reached without a crash, every message that was put
\* successfully and was not settled ACCEPTED is in the spool as a queue
\* entry, a delivery record or a failed record.
C1_NoMessageLost ==
    \A i \in putOk \ accepted : InQueue(i) \/ InDeliveries(i) \/ InFailed(i)

\* C2: after a kill and a restart, every message whose publish succeeded
\* (and which has reached no terminal outcome) is discoverable by pop, now or
\* later, or is a delivery record.
C2_DurableAfterRestart ==
    last.op = "restart" =>
        \A i \in putOk :
            (i \notin accepted /\ ~InFailed(i)) => InQueue(i) \/ InDeliveries(i)

\* C3: a publish call made with an on_settled callback returns success with
\* the message persisted as a queue entry and the callback fired exactly
\* once; the callback never fires for a message that is not persisted.
C3_CallbackAfterPersist ==
    /\ \A i \in Ids : fired[i] > 0 => i \in putOk
    /\ last.op = "event_publish" =>
           /\ ~last.raised
           /\ last.message # None
           /\ InQueue(last.message.id)
           /\ fired[last.message.id] = 1

C5_SinglePopSameMessage ==
    (last.op = "transfer" /\ last.sent) =>
        /\ last.pops = 1
        /\ last.sentMsg = last.message
        /\ last.tracked => deliveries[last.tag] = last.message

\* C6: with k >= 1 due messages and a sender with credit, one transfer takes
\* exactly one entry off the queue.
C6_TransferRemovesOne ==
    [][(last'.op = "transfer" /\ n_due(queue, clock) >= 1 /\ credit > 0)
           => Len(queue') = Len(queue) - 1]_vars

\* C7: with credit 0, transfer returns None and pops nothing, sends nothing
\* and writes no delivery record.
C7_NoCreditNoTransfer ==
    [][(last'.op = "transfer" /\ credit = 0)
           => /\ queue' = queue
              /\ deliveries' = deliveries
              /\ ~last'.sent
              /\ last'.ret = NoTag]_vars

\* C8: transfer returns the tag of the tracked delivery when it sent a
\* message, and None exactly when it sent nothing.
C8_ReturnsTag ==
    (last.op = "transfer" /\ ~last.raised) =>
        /\ last.sent => (last.tracked /\ last.ret = last.tag /\ last.ret # NoTag)
        /\ ~last.sent => last.ret = NoTag

\* C9: when a step of transfer fails after the pop, the popped message is
\* still a queue entry or is recorded as a delivery record.
C9_RollbackOnFailure ==
    (last.op = "transfer" /\ last.raised /\ last.message # None) =>
        \/ InQueue(last.message.id)
        \/ deliveries[last.tag] = last.message

\* C10: put with delay d at time t writes not_before = t + d, and no pop
\* (direct or inside transfer) takes an entry whose not_before lies in the
\* future: such entries stay queued, a returned message comes from a due
\* entry, and pop returns None when nothing is due.
C10_PopRespectsNotBefore ==
    /\ [](last.op = "put" =>
              /\ Len(queue) >= 1
              /\ queue[Len(queue)].msg = last.message
              /\ queue[Len(queue)].nbf = clock + last.delay)
    /\ [][last'.op \in {"pop", "transfer"} =>
              /\ \A k \in 1..Len(queue) :
                     queue[k].nbf > clock =>
                         \E j \in 1..Len(queue') : queue'[j] = queue[k]
              /\ last'.message # None =>
                     \E k \in 1..Len(queue) :
                         /\ queue[k].msg = last'.message
                         /\ queue[k].nbf <= clock
              /\ n_due(queue, clock) = 0 =>
                     (last'.message = None /\ queue' = queue)]_vars

\* A pop returned a due message while an older entry, not yet due, stayed.
C10_Witness ==
    /\ last.op = "pop"
    /\ last.message # None
    /\ Len(queue) >= 1
    /\ queue[1].nbf > clock

\* C11: whenever at least one queue entry is due, pop (called directly or as
\* the first pop of transfer) returns a message, and that message is the
\* oldest due entry: every entry before it in mtime order is not yet due.
C11_PopOldestDue ==
    [][(last'.op \in {"pop", "transfer"} /\ n_due(queue, clock) >= 1) =>
           /\ last'.message # None
           /\ \E k \in 1..Len(queue) :
                  /\ queue[k].msg = last'.message
                  /\ queue[k].nbf <= clock
                  /\ \A j \in 1..(k - 1) : queue[j].nbf > clock]_vars

\* A pop returned a message while a younger entry that was due as well
\* stayed at the head of the queue.
C11_Witness ==
    /\ last.op = "pop"
    /\ last.message # None
    /\ Len(queue) >= 1
    /\ queue[1].nbf <= clock

\* C12: a pop call dequeues at most one entry: when it returns a message
\* that entry alone is gone and the others are unchanged and in order; when
\* it returns None the queue is unchanged.  Nothing else in the spool moves.
C12_PopAtMostOne ==
    [][last'.op = "pop" =>
           /\ IF last'.message # None
              THEN /\ Len(queue') = Len(queue) - 1
                   /\ \E k \in 1..Len(queue) :
                          /\ queue[k].msg = last'.message
                          /\ \A j \in 1..Len(queue') :
                                 queue'[j] = IF j < k THEN queue[j]
                                             ELSE queue[j + 1]
              ELSE queue' = queue
           /\ UNCHANGED <<deliveries, rejected, undeliverable>>]_vars

\* A pop returned a message and left the rest of the queue behind.
C12_Witness ==
    /\ last.op = "pop"
    /\ last.message # None
    /\ Len(queue) >= 1

C14_DelayInMilliseconds ==
    (last.op = "delay" /\ ~last.raised) =>
        /\ last.qat = clock
        /\ last.delay > 0 => last.nbf - last.qat = last.delay
        /\ last.delay = 300000 => last.nbf - last.qat = 300 * 1000
        /\ last.delay = 0 => last.nbf = last.qat

\* delay(300000) returned a not_before later than queued_at.
C14_Witness ==
    /\ last.op = "delay"
    /\ last.delay = 300000
    /\ last.nbf > last.qat

\* C15: handling a REJECTED outcome raises the delivery_count of the
\* message by exactly one: the record written under rejected/ carries the
\* count of the delivery record plus one.
C15_RejectedCountsOne ==
    (last.op = "on_settled" /\ last.state = "REJECTED" /\ ~last.raised) =>
        /\ rejected[last.message.id] # None
        /\ rejected[last.message.id].delivery_count
               = last.message.delivery_count + 1

\* A REJECTED outcome was handled for a tracked delivery.
C15_Witness ==
    /\ last.op = "on_settled"
    /\ last.state = "REJECTED"
    /\ ~last.raised
    /\ last.message # None
    /\ rejected[last.message.id] # None

C17_ModifiedCountsOne ==
    (last.op = "on_settled" /\ last.state = "MODIFIED" /\ ~last.raised) =>
        IF last.undeliverable
        THEN /\ undeliverable[last.message.id] # None
             /\ undeliverable[last.message.id].delivery_count
                    = last.message.delivery_count + 1
        ELSE \E k \in 1..Len(queue) :
                 /\ queue[k].msg.id = last.message.id
                 /\ queue[k].msg.delivery_count
                        = last.message.delivery_count + 1

\* C18: handling a REJECTED outcome, or a MODIFIED outcome with
\* undeliverable = true, adds exactly one failed record for the message
\* (under rejected/ and undeliverable/ respectively: the failed count rises
\* by one) and does not put the message back: the queue is unchanged.
C18_FailedNotRequeued ==
    [][(/\ last'.op = "on_settled"
        /\ ~last'.raised
        /\ last'.state = "REJECTED" \/ last'.undeliverable) =>
           /\ failed' = failed + 1
           /\ IF last'.state = "REJECTED"
              THEN rejected'[last'.message.id] # None
              ELSE undeliverable'[last'.message.id] # None
           /\ queue' = queue]_vars

C20_NoRecordAfterOutcome ==
    (/\ last.op = "on_settled"
     /\ ~last.raised
     /\ last.state \in {"ACCEPTED", "REJECTED", "RELEASED", "MODIFIED"}) =>
        /\ deliveries[last.tag] = None
        /\ last.state = "ACCEPTED" =>
               /\ ~InQueue(last.message.id)
               /\ ~InDeliveries(last.message.id)
               /\ ~InFailed(last.message.id)

C22_BackoffFloorMonotone ==
    last.op = "pub_delay" =>
        /\ last.ret * pow(4, last.n) <= retransmission_delay * pow(5, last.n)
        /\ retransmission_delay * pow(5, last.n)
               < (last.ret + 1) * pow(4, last.n)
        /\ pub_delay(last.n + 1) >= last.ret

\* delay(2) returned 7, the floor of 7.8125.
C22_Witness ==
    /\ last.op = "pub_delay"
    /\ last.n = 2
    /\ last.ret = 7

\* C23: a settlement event for a tracked delivery whose terminal state is
\* none of ACCEPTED, REJECTED, RELEASED, MODIFIED is handled as REJECTED: the
\* message ends as a record under rejected/ with its delivery_count raised
\* by one.
C23_UnknownStateRejected ==
    (last.op = "on_settled" /\ last.state = "OTHER" /\ last.message # None) =>
        /\ rejected[last.message.id] # None
        /\ rejected[last.message.id].delivery_count
               = last.message.delivery_count + 1

\* C24: a settlement event for a tag that has no delivery record is a no-op:
\* no error propagates and queue, delivery records and failed records (with
\* the delivery counts they carry) are unchanged, so that handling it twice
\* is the same as handling it once.
C24_UnknownTagNoOp ==
    [][(last'.op = "on_settled" /\ deliveries[last'.tag] = None) =>
           /\ ~last'.raised
           /\ UNCHANGED <<queue, deliveries, rejected, undeliverable>>]_vars

\* C26 as stated: the message publish hands to the buffer has durable = true
\* and delivery_count = 0 whatever the caller set, has id, correlation_id
\* and creation_time set, and keeps the caller's id, correlation_id and
\* creation_time when the caller supplied them.
C26_PublishNormalises_Original ==
    (last.op = "publish_message" /\ ~last.raised) =>
        /\ last.handed.durable
        /\ last.handed.delivery_count = 0
        /\ last.handed.id # 0
        /\ last.handed.correlation_id # 0
        /\ last.handed.creation_time # 0
        /\ last.input.id # 0 => last.handed.id = last.input.id
        /\ last.input.correlation_id # 0 =>
               last.handed.correlation_id = last.input.correlation_id
        /\ last.input.creation_time # 0 =>
               last.handed.creation_time = last.input.creation_time

\* C26, amended: as above, but a creation_time the caller supplied is kept
\* as its integer part (publish coerces it with int()), not as supplied.
C26_PublishNormalises ==
    (last.op = "publish_message" /\ ~last.raised) =>
        /\ last.handed.durable
        /\ last.handed.delivery_count = 0
        /\ last.handed.id # 0
        /\ last.handed.correlation_id # 0
        /\ last.handed.creation_time # 0
        /\ last.input.id # 0 => last.handed.id = last.input.id
        /\ last.input.correlation_id # 0 =>
               last.handed.correlation_id = last.input.correlation_id
        /\ last.handed.creation_time % 1000 = 0
        /\ last.input.creation_time # 0 =>
               /\ last.handed.creation_time <= last.input.creation_time
               /\ last.input.creation_time < last.handed.creation_time + 1000

\* publish handed over a message whose caller had set delivery_count 1,
\* durable false and a creation_time with a fraction.
C26_Witness ==
    /\ last.op = "publish_message"
    /\ ~last.raised
    /\ last.input.delivery_count = 1
    /\ ~last.input.durable
    /\ last.input.creation_time % 1000 # 0
    /\ InQueue(last.handed.id)

\* C27: when clean_properties fails for a message, publish raises to the
\* producer and the message is not enqueued: queue, delivery records and
\* failed records are unchanged.
C27_InvalidNotEnqueued ==
    [][(last'.op = "publish_message" /\ last'.clean = "raises") =>
           /\ last'.raised
           /\ UNCHANGED <<queue, deliveries, rejected, undeliverable>>]_vars

\* clean_properties failed for a message that was valid otherwise, while
\* another message was queued.
C27_Witness ==
    /\ last.op = "publish_message"
    /\ last.clean = "raises"
    /\ last.raised
    /\ last.input.id \in Ids
    /\ last.input.correlation_id \in CorrelationIds
    /\ ~InQueue(last.input.id)
    /\ Len(queue) >= 1

\* C28: when the router routes one inbound message to n distinct
\* destinations, a copy is enqueued for each of them and the buffer holds n
\* more queue entries afterwards, one per destination.
C28_RouterFanOut ==
    [][last'.op = "on_message" =>
           /\ last'.copies = last'.n
           /\ Len(queue') = Len(queue) + last'.n]_vars

\* C29: the router settles an inbound delivery as ACCEPTED only after every
\* routed copy of the message has been enqueued; when enqueueing a copy
\* fails the delivery is not settled as accepted.
C29_AcceptAfterEnqueue ==
    [][last'.op = "on_message" =>
           /\ last'.settled => (last'.copies = last'.n /\ ~last'.raised)
           /\ last'.raised =>
                  (~last'.settled /\ router'.settled = router.settled)]_vars

\* The enqueue of a routed copy failed and the inbound delivery, never
\* accepted before, was left unsettled.
C29_Witness ==
    /\ last.op = "on_message"
    /\ last.n >= 1
    /\ last.raised
    /\ ~last.settled
    /\ last.message.id \notin router.settled

\* C30: a sender link that a peer initiates and that does not come from a
\* configured upstream peer is refused, so every sender link that is open is
\* a link to an upstream peer.
C30_OnlyUpstreamSenders ==
    \A l \in Links :
        (router.state[l] = "open" /\ l.is_sender) => l.peer = "upstream"

\* C39: for every inbound message the router handles, whether routing
\* succeeded or raised, the receiving link is granted exactly one replacement
\* credit: the credit of the link after the handler is what it was before
\* the message used one unit, so it never shrinks below the link_credit
\* granted at link open.
C39_CreditReplaced ==
    /\ [][last'.op = "on_message" =>
              router'.credit[last'.link] = router.credit[last'.link]]_vars
    /\ [](\A l \in Links :
              (router.state[l] = "open" /\ ~l.is_sender) =>
                  router.credit[l] >= link_credit)

\* C32: after SIGINT or SIGTERM must_stop is set, the beat thread eventually
\* exits, and teardown closes every sender link, with credit or without, and
\* then stops the container.
C32_GracefulShutdown ==
    /\ []((last.op = "signal_handler" /\ last.state \in {"SIGINT", "SIGTERM"})
              => daemon.must_stop)
    /\ (daemon.must_stop ~> daemon.thread = "done")
    /\ (daemon.must_stop ~> daemon.container = "stopped")
    /\ [](daemon.container = "stopped" => daemon.sender = "closed")

\* C36: during teardown the event injector is closed only after the beat
\* thread has terminated (join before close): the beat thread never triggers
\* a beat on a closed injector, and no beat is handled once the container
\* was stopped.
C36_JoinBeforeClose ==
    /\ daemon.injector = "closed" => daemon.thread = "done"
    /\ ~daemon.beat_closed
    /\ last.op = "on_beat" => daemon.container = "running"

\* The injector was closed while a beat that the thread had triggered after
\* the signal was still waiting on it.
C36_Witness ==
    /\ last.op = "on_teardown_close"
    /\ daemon.injector = "closed"
    /\ daemon.thread = "done"
    /\ beats(daemon.events) >= 1

\* C38: for any number and timing of SIGINT and SIGTERM signals, the
\* teardown actions (join the beat thread, close the injector, close the
\* links, stop the container) run at most once, and the signal handler never
\* triggers an event on an injector that has already been closed.
C38_TeardownOnce ==
    /\ daemon.teardowns <= 1
    /\ ~daemon.stale

\* C37: once must_stop has been set no new transfer is started: a beat, a
\* sendable event or a message-persisted callback that is handled afterwards
\* (and a flush called in any other way) calls no transfer, pops nothing
\* from the queue, sends nothing and writes no delivery record.
C37_NoTransferAfterStop ==
    [][(/\ last'.op \in {"on_beat", "on_sendable", "on_message_persisted",
                         "flush"}
        /\ daemon.must_stop) =>
           /\ last'.calls = 0
           /\ last'.sends = 0
           /\ UNCHANGED <<queue, deliveries, credit, minted>>]_vars

\* The router handled a beat after must_stop was set, with credit on the
\* link and a due message in the queue, which is still there.
C37_Witness ==
    /\ last.op = "on_beat"
    /\ last.kind = "router"
    /\ last.stopped
    /\ credit > 0
    /\ n_due(queue, clock) >= 1

\* C33: flush(link, limit) calls transfer at most limit times, calls it only
\* while the credit of the link is greater than 0, and makes no call after
\* the first transfer that returned None.
C33_FlushBounded ==
    last.op \in {"flush", "on_beat", "on_sendable", "on_message_persisted"} =>
        /\ last.calls <= last.limit
        /\ last.dry_calls = 0
        /\ last.late_calls = 0

\* A flush of the router with a limit of two or more made one call of
\* transfer, which sent a message and returned None, and stopped.
C33_Witness ==
    /\ last.op = "flush"
    /\ last.kind = "router"
    /\ last.limit >= 2
    /\ last.calls = 1
    /\ last.sends = 1

\* C31: a delivery record that is in flight when the connection is lost
\* stays on disk and is eventually sent again, after the reconnection, under
\* the same delivery tag; no delivery record stays in deliveries/ for ever
\* without being sent again or settled.
C31_ResentAfterReconnect ==
    \A t \in Tags :
        /\ [](t \in daemon.lost => deliveries[t] # None)
        /\ (t \in daemon.lost) ~>
               \/ t \in last.tags
               \/ last.op = "on_settled" /\ last.tag = t

\* C35: if the process stops at any step of an enqueue, a track or a
\* failed-record write, the spool never holds a file under a final name
\* (.amqp, .dstate) whose content is missing or partial: a record has its
\* final name only after its full content was written and fsynced; and a
\* file still named .tmp is never returned by pop nor counted by len,
\* queued, deliveries or failed.
C35_AtomicRecords ==
    /\ \A x \in files.disk :
           x.ext # "tmp" => (x.content = "full" /\ x.synced)
    /\ \A x \in list_queued(files.disk) \cup list_deliveries(files.disk)
                \cup list_failed(files.disk) :
           x.ext # "tmp" /\ x.content = "full"
    /\ last.op = "file_pop" => (last.ext # "tmp" /\ last.content = "full")

\* The machine stopped between the write and the fsync of a queue entry:
\* its .tmp file has lost content, next to a delivery record that is whole.
C35_Witness ==
    /\ last.op = "kill_in_write"
    /\ last.state = "fsync"
    /\ \E x \in files.disk :
           x.dir = "." /\ x.ext = "tmp" /\ x.content # "full"
    /\ list_deliveries(files.disk) # {}

\* C34: loading a criterion document that lacks a required field (name,
\* operator, value) or names an operator outside the operator set, or a rule
\* document without destinations or with fewer than one criterion, reports
\* a non-empty error set and yields no Criterion or Rule object; a valid
\* rule without exclude or return_to_sender gets exclude = [] and
\* return_to_sender = false.
C34_SchemaValidation ==
    LET c == last.criterion_doc
        r == last.rule_doc
        valid(x) == /\ x.name # Missing
                    /\ x.value # Missing
                    /\ x.operator # Missing
                    /\ x.operator[1] \in matching_ops
    IN
    /\ (last.op = "criterion_load" /\ ~valid(c)) =>
           /\ last.loaded.errors # {}
           /\ last.loaded.object # "Criterion"
    /\ (/\ last.op = "rule_load"
        /\ \/ r.destinations = Missing
           \/ r.criterions = Missing
           \/ Len(r.criterions[1]) < 1) =>
           /\ last.loaded.errors # {}
           /\ last.loaded.object # "Rule"
    /\ (/\ last.op = "rule_load"
        /\ r.destinations # Missing
        /\ r.criterions # Missing
        /\ Len(r.criterions[1]) >= 1
        /\ \A i \in 1..Len(r.criterions[1]) : valid(r.criterions[1][i])) =>
           /\ last.loaded.object = "Rule"
           /\ last.loaded.errors = {}
           /\ r.exclude = Missing => last.loaded.exclude = <<>>
           /\ r.return_to_sender = Missing => ~last.loaded.return_to_sender

\* A rule document with destinations and an empty list of criterions was
\* loaded.
C34_Witness ==
    /\ last.op = "rule_load"
    /\ last.rule_doc.destinations # Missing
    /\ last.rule_doc.criterions = Given(<<>>)
    /\ last.loaded.errors = {"criterions"}
====
